---------------------------- MODULE Spec2Model ----------------------------
(***************************************************************************)
(* druxt-menu: the DruxtMenu class of src/src/menu.js.                     *)
(*                                                                         *)
(* A DruxtMenu instance is constructed from a baseUrl and module options,  *)
(* and get(menuName) retrieves the menu's items with one of three          *)
(* strategies (menu_link_content, jsonapi_menu_items, decoupled_menus),    *)
(* each an async method that awaits the Druxt client and then normalises   *)
(* the raw records into entities.                                          *)
(*                                                                         *)
(* JavaScript values: strings are TLA+ strings, undefined and null are the *)
(* two reserved strings Undefined and Null, arrays are sequences, objects  *)
(* are records.  A string the code slices (the hierarchy of a decoupled    *)
(* menu link) is a sequence of one-character strings, turned into a        *)
(* string by Str where the code interpolates it.                           *)
(***************************************************************************)
EXTENDS Integers, Sequences, FiniteSets, TLC

VARIABLES inst, index, calls

vars == <<inst, index, calls>>

-----------------------------------------------------------------------------
(* Bounds of the model.                                                    *)

\* Longest hierarchy string of a decoupled menu link, in characters.
MaxHier == 5
\* Most link entries in one linkset document.
MaxLinks == 2
\* Most raw records over all the pages of one getCollectionAll result.
MaxRecords == 2
\* The same, for each of the two calls of the legacy-flag comparison and of
\* the concurrent calls.
MaxPairRecords == 1

-----------------------------------------------------------------------------
(* JavaScript values.                                                      *)

Undefined == "#undefined"
Null == "#null"

\* !v for the values a baseUrl is drawn from.
Falsy(v) == v \in {Undefined, Null, ""}

Min(a, b) == IF a < b THEN a ELSE b
Max(a, b) == IF a > b THEN a ELSE b

\* A sequence of one-character strings as a string (template interpolation).
RECURSIVE Str(_)
Str(s) == IF s = <<>> THEN "" ELSE Head(s) \o Str(Tail(s))

\* String.prototype.lastIndexOf(ch): the 0-based index of the last ch, or -1.
LastIndexOf(s, ch) ==
    LET hits == {k \in 1..Len(s) : s[k] = ch}
    IN  IF hits = {} THEN -1
        ELSE (CHOOSE k \in hits : \A j \in hits : j <= k) - 1

\* String.prototype.slice(start, end): a negative index counts from the end.
Slice(s, start, end) ==
    LET n  == Len(s)
        st == IF start < 0 THEN Max(n + start, 0) ELSE Min(start, n)
        en == IF end < 0 THEN Max(n + end, 0) ELSE Min(end, n)
    IN  IF st >= en THEN <<>> ELSE SubSeq(s, st + 1, en)

\* All sequences over S of length at most n.
SeqsUpTo(S, n) == UNION {[1..k -> S] : k \in 0..n}

\* The concatenation of a sequence of sequences.
RECURSIVE Concat(_)
Concat(ss) == IF ss = <<>> THEN <<>> ELSE Head(ss) \o Concat(Tail(ss))

-----------------------------------------------------------------------------
(* The inputs: constructor arguments, menu names, client responses.        *)

MenuNames == {"main", "footer"}

BaseUrls == {Undefined, Null, "", "https://example.com"}

MenuTypes == {"decoupled_menus", "jsonapi_menu_items", "menu_link_content", "bogus", Undefined}

\* options.menu: absent, or an object with an optional legacy flag
\* jsonApiMenuItems (absent counts as false) and an optional type.
NoMenuOption == [defined |-> FALSE, jsonApiMenuItems |-> FALSE, type |-> Undefined]
MenuOptions ==
    {NoMenuOption} \cup
    {[defined |-> TRUE, jsonApiMenuItems |-> f, type |-> t] : f \in BOOLEAN, t \in MenuTypes}
Options == {[menu |-> m] : m \in MenuOptions}

\* The options of the legacy-flag comparison: the flag beside any type, or
\* the type 'jsonapi_menu_items' without the flag.
LegacyOptions ==
    {o \in Options : o.menu.defined /\
        (o.menu.jsonApiMenuItems \/ o.menu.type = "jsonapi_menu_items")}

\* Errors the Druxt client can throw.
ClientErrors == {"NetworkError", "BackendError"}

\* this.druxt.options.endpoint
Endpoint == "/jsonapi"

\* Raw menu_link_content records.
MlcRecord(id, menu, parent, weight) ==
    [id |-> id,
     attributes |-> [bundle |-> "menu_link_content", description |-> Null,
                     link |-> [uri |-> "internal:/" \o id], menu_name |-> menu,
                     parent |-> parent, title |-> id, weight |-> weight]]
MlcRecords ==
    {MlcRecord("a", "main", Null, "0"), MlcRecord("b", "main", "a", "1"),
     MlcRecord("f", "footer", Null, "0")}

\* Raw menu_items records; parent is "" for a root item, and Null or
\* Undefined (absent) in a malformed record.
ItemRecord(id, parent, weight, description) ==
    [id |-> id,
     attributes |-> [description |-> description, url |-> "/" \o id,
                     menu_name |-> "main", parent |-> parent, title |-> id,
                     weight |-> weight]]
ItemRecords ==
    {ItemRecord("a", "", "0", Null), ItemRecord("b", "a", "1", "about b"),
     ItemRecord("n", Null, "0", Null), ItemRecord("u", Undefined, "0", Null)}

\* The getCollectionAll results that hold the records r in this order: one
\* page, or two pages split anywhere, or no page at all when r is empty.
PageSeqs(r) ==
    {<<[data |-> r]>>} \cup
    {<<[data |-> SubSeq(r, 1, k)], [data |-> SubSeq(r, k + 1, Len(r))]>> : k \in 0..Len(r)} \cup
    (IF r = <<>> THEN {<<>>} ELSE {})

\* Hierarchy strings: the dot-delimited paths over the digit '1' of at most
\* MaxHier characters ("1", "11", "1.1", "1.11", "1.1.1", ...): no segment
\* is empty.
Hierarchies ==
    {h \in SeqsUpTo({"1", "."}, MaxHier) :
        /\ h # <<>>
        /\ h[1] # "." /\ h[Len(h)] # "."
        /\ \A k \in 1..(Len(h) - 1) : ~(h[k] = "." /\ h[k + 1] = ".")}

\* A link entry of a linkset: its 'drupal-menu' array is absent, empty, or
\* holds one element with a hierarchy.
Links ==
    {[href |-> "/x", title |-> "X", hasDrupalMenu |-> FALSE, drupalMenu |-> <<>>],
     [href |-> "/x", title |-> "X", hasDrupalMenu |-> TRUE, drupalMenu |-> <<>>]} \cup
    {[href |-> "/x", title |-> "X", hasDrupalMenu |-> TRUE,
      drupalMenu |-> <<[hierarchy |-> h]>>] : h \in Hierarchies}

\* The linkset arrays that hold the link entries l in this order: one
\* element, or two elements split anywhere, or none when l is empty.
Linksets(l) ==
    {<<[item |-> l]>>} \cup
    {<<[item |-> SubSeq(l, 1, k)], [item |-> SubSeq(l, k + 1, Len(l))]>> : k \in 0..Len(l)} \cup
    (IF l = <<>> THEN {<<>>} ELSE {})

\* The responses of the raw linkset get that hold the link entries l: data
\* may be undefined, and so may data.linkset, when l is empty.
NoResponse == [hasData |-> FALSE, hasLinkset |-> FALSE, linkset |-> <<>>]
LinksetResponses(l) ==
    {[hasData |-> TRUE, hasLinkset |-> TRUE, linkset |-> ls] : ls \in Linksets(l)} \cup
    (IF l = <<>>
     THEN {NoResponse, [hasData |-> TRUE, hasLinkset |-> FALSE, linkset |-> <<>>]}
     ELSE {})

\* Keys of the client's resource index, and the index getIndex loads: the
\* backend lists its own resources, not the menu_items ones.
IndexKeys == {"menu_items--main", "menu_items--footer", "node--page"}
BackendIndex ==
    [k \in IndexKeys |-> IF k = "node--page" THEN "/jsonapi/node/page" ELSE Undefined]

-----------------------------------------------------------------------------
(* The constructor.                                                        *)

BaseUrlError == "The 'baseUrl' parameter is required."

\* An instance slot: status is "none" before the constructor ran, "threw"
\* when it threw (no instance exists), "constructed" otherwise; baseUrl is
\* the argument it was given, menu is this.options.menu, druxt tells whether
\* the Druxt client was created.
NotConstructed ==
    [status |-> "none", baseUrl |-> Undefined, error |-> Undefined,
     menu |-> NoMenuOption, druxt |-> FALSE]

\* Mutant: the baseUrl check tests for undefined and null only.
ConstructorNullCheck(baseUrl, options) ==
    IF baseUrl \in {Undefined, Null}
    THEN [status |-> "threw", baseUrl |-> baseUrl, error |-> BaseUrlError,
          menu |-> NoMenuOption, druxt |-> FALSE]
    ELSE LET menu == IF options.menu.defined /\ options.menu.jsonApiMenuItems
                     THEN [options.menu EXCEPT !.type = "jsonapi_menu_items"]
                     ELSE options.menu
         IN  [status |-> "constructed", baseUrl |-> baseUrl, error |-> Undefined,
              menu |-> IF menu.defined THEN menu
                       ELSE [defined |-> TRUE, jsonApiMenuItems |-> FALSE,
                             type |-> "menu_link_content"],
              druxt |-> TRUE]

\* Mutant: the legacy flag sets the type only when no type was given.
ConstructorFlagWithoutType(baseUrl, options) ==
    IF Falsy(baseUrl)
    THEN [status |-> "threw", baseUrl |-> baseUrl, error |-> BaseUrlError,
          menu |-> NoMenuOption, druxt |-> FALSE]
    ELSE LET menu == IF /\ options.menu.defined /\ options.menu.jsonApiMenuItems
                        /\ options.menu.type = Undefined
                     THEN [options.menu EXCEPT !.type = "jsonapi_menu_items"]
                     ELSE options.menu
         IN  [status |-> "constructed", baseUrl |-> baseUrl, error |-> Undefined,
              menu |-> IF menu.defined THEN menu
                       ELSE [defined |-> TRUE, jsonApiMenuItems |-> FALSE,
                             type |-> "menu_link_content"],
              druxt |-> TRUE]

\* new DruxtMenu(baseUrl, options): throws before anything else when baseUrl
\* is falsy; otherwise translates the legacy flag into options.menu.type,
\* merges the options over the default menu type, and creates the client.
\* this.options.menu is options.menu itself when given (a shallow merge).
Constructor(baseUrl, options) ==
    IF Falsy(baseUrl)
    THEN [status |-> "threw", baseUrl |-> baseUrl, error |-> BaseUrlError,
          menu |-> NoMenuOption, druxt |-> FALSE]
    ELSE LET menu == IF options.menu.defined /\ options.menu.jsonApiMenuItems
                     THEN [options.menu EXCEPT !.type = "jsonapi_menu_items"]
                     ELSE options.menu
         IN  [status |-> "constructed", baseUrl |-> baseUrl, error |-> Undefined,
              menu |-> IF menu.defined THEN menu
                       ELSE [defined |-> TRUE, jsonApiMenuItems |-> FALSE,
                             type |-> "menu_link_content"],
              druxt |-> TRUE]

-----------------------------------------------------------------------------
(* get() and the three strategies.                                         *)

\* Mutant: the default case of the switch runs getJsonApiMenuItems.
StrategyDefaultItems(type) ==
    CASE type = "decoupled_menus" -> "getDecoupledMenu"
      [] type = "menu_link_content" -> "getMenuLinkContent"
      [] OTHER -> "getJsonApiMenuItems"

\* The switch of get(): the strategy method run for a menu type.
Strategy(type) ==
    CASE type = "decoupled_menus" -> "getDecoupledMenu"
      [] type = "jsonapi_menu_items" -> "getJsonApiMenuItems"
      [] OTHER -> "getMenuLinkContent"

NoQuery == [filters |-> <<>>, fields |-> <<>>]

MlcResource == "menu_link_content--menu_link_content"
MlcFields == <<"bundle", "description", "link", "menu_name", "parent", "title", "weight">>

\* The query of getMenuLinkContent.
MlcQuery(menuName) ==
    [filters |-> <<<<"enabled", "1">>, <<"menu_name", menuName>>>>,
     fields |-> <<MlcResource>> \o MlcFields]

\* The resource name and the query of getJsonApiMenuItems.
ItemsResource(menuName) == "menu_items--" \o menuName
ItemsQuery(menuName) ==
    [filters |-> <<<<"enabled", "1">>, <<"menu_name", menuName>>>>, fields |-> <<>>]

\* The index entry getJsonApiMenuItems registers.
ItemsHref(menuName) == Endpoint \o "/menu_items/" \o menuName

\* this.druxt.index[resource] = { href }: an unconditional assignment.
RegisterResource(entries, menuName) ==
    [entries EXCEPT ![ItemsResource(menuName)] = ItemsHref(menuName)]

\* The path of the raw linkset get.
LinksetPath(menuName) == "/system/menu/" \o menuName \o "/linkset"

\* Mutant: the pages are walked from the last to the first.
FlattenPagesLastFirst(collections) ==
    Concat([k \in 1..Len(collections) |-> collections[Len(collections) + 1 - k].data])

\* The records of all the pages, in page order and within-page order (the
\* two nested for-of loops).
FlattenPages(collections) == Concat([k \in 1..Len(collections) |-> collections[k].data])

\* getMenuLinkContent pushes each raw record as it is.
MlcEntities(collections) == FlattenPages(collections)

\* resource.attributes.parent.length throws on null and undefined.
ItemThrows(resource) == resource.attributes.parent \in {Null, Undefined}

\* Mutant: parent is copied from the raw record, an empty one too.
ItemEntityKeepsParent(menuName, resource) ==
    [id |-> resource.id,
     attributes |-> [description |-> resource.attributes.description,
                     link |-> [uri |-> "internal:" \o resource.attributes.url],
                     menu_name |-> menuName,
                     parent |-> resource.attributes.parent,
                     title |-> resource.attributes.title,
                     weight |-> resource.attributes.weight],
     resource |-> resource]

\* Mutant: menu_name is copied from the raw record.
ItemEntityRawMenuName(menuName, resource) ==
    [id |-> resource.id,
     attributes |-> [description |-> resource.attributes.description,
                     link |-> [uri |-> "internal:" \o resource.attributes.url],
                     menu_name |-> resource.attributes.menu_name,
                     parent |-> IF resource.attributes.parent # ""
                                THEN resource.attributes.parent ELSE Null,
                     title |-> resource.attributes.title,
                     weight |-> resource.attributes.weight],
     resource |-> resource]

\* The entity getJsonApiMenuItems builds from one raw record.
ItemEntity(menuName, resource) ==
    [id |-> resource.id,
     attributes |-> [description |-> resource.attributes.description,
                     link |-> [uri |-> "internal:" \o resource.attributes.url],
                     menu_name |-> menuName,
                     parent |-> IF resource.attributes.parent # ""
                                THEN resource.attributes.parent ELSE Null,
                     title |-> resource.attributes.title,
                     weight |-> resource.attributes.weight],
     resource |-> resource]

ItemEntities(menuName, collections) ==
    LET raw == FlattenPages(collections)
    IN  [k \in 1..Len(raw) |-> ItemEntity(menuName, raw[k])]

\* (response.data || {}).linkset || []
LinksetOf(response) ==
    IF response.hasData /\ response.hasLinkset THEN response.linkset ELSE <<>>

\* The link entries of all the linkset elements, in order.
FlattenLinks(linkset) == Concat([k \in 1..Len(linkset) |-> linkset[k].item])

\* link['drupal-menu'][0].hierarchy throws when the array or its first
\* element is missing.
LinkThrows(link) == ~link.hasDrupalMenu \/ link.drupalMenu = <<>>

\* hierarchy.slice(0, hierarchy.lastIndexOf('.')) || null, as a sequence
\* (the empty sequence is the falsy empty string).
ParentHierarchy(hierarchy) == Slice(hierarchy, 0, LastIndexOf(hierarchy, "."))

\* The entity getDecoupledMenu builds from one link entry.
LinkEntity(menuName, link) ==
    LET hierarchy == link.drupalMenu[1].hierarchy
        parent    == ParentHierarchy(hierarchy)
    IN  [id |-> menuName \o Str(hierarchy),
         attributes |-> [description |-> Null,
                         link |-> [uri |-> "internal:" \o link.href],
                         menu_name |-> menuName,
                         parent |-> IF parent # <<>> THEN menuName \o Str(parent) ELSE Null,
                         title |-> link.title,
                         weight |-> Str(hierarchy)]]

LinkEntities(menuName, links) == [k \in 1..Len(links) |-> LinkEntity(menuName, links[k])]

-----------------------------------------------------------------------------
(* The state: the instances, each client's resource index, and the get()   *)
(* calls with the await each is suspended at.                              *)

Instances == {"i1", "i2"}
CallIds == {"c1", "c2"}

\* A get() call: pc is the client call it awaits ("getIndex",
\* "getCollectionAll", "axios.get") or how it settled ("resolved",
\* "rejected"); trace lists the client calls it made and received how each
\* completed await ended; collections and response are the values its awaits
\* returned, thrown the error the client threw at it; entities and error are
\* what get() resolved or rejected with.
NoCall ==
    [pc |-> "idle", inst |-> "", menuName |-> "", strategy |-> "", trace |-> <<>>,
     received |-> <<>>, collections |-> <<>>, response |-> NoResponse, thrown |-> Undefined,
     entities |-> <<>>, error |-> Undefined]

NoIndex == [loaded |-> FALSE, entries |-> [k \in IndexKeys |-> Undefined]]

ClientCall(op, arg, query) == [op |-> op, arg |-> arg, query |-> query]

\* get(menuName) up to the first await of the strategy the switch selects.
Started(i, menuName, type) ==
    LET strategy == Strategy(type)
        first == CASE strategy = "getDecoupledMenu" ->
                        ClientCall("axios.get", LinksetPath(menuName), NoQuery)
                   [] strategy = "getJsonApiMenuItems" ->
                        ClientCall("getIndex", "", NoQuery)
                   [] OTHER ->
                        ClientCall("getCollectionAll", MlcResource, MlcQuery(menuName))
    IN  [NoCall EXCEPT !.pc = first.op, !.inst = i, !.menuName = menuName,
                       !.strategy = strategy, !.trace = <<first>>]

\* Mutant: the error is caught and get() resolves with no entities.
RejectedSwallowed(call, e) == [call EXCEPT !.pc = "resolved", !.entities = <<>>]

\* An await whose client call threw e: no strategy catches, so get()
\* rejects with e.
Rejected(call, e) == [call EXCEPT !.pc = "rejected", !.error = e]

\* getMenuLinkContent after its await.
MlcResult(call, collections) ==
    [call EXCEPT !.pc = "resolved", !.collections = collections,
                 !.entities = MlcEntities(collections)]

\* getJsonApiMenuItems after getCollectionAll: a record whose parent is null
\* or undefined makes the loop throw a TypeError.
ItemsResult(call, collections) ==
    IF \E k \in 1..Len(FlattenPages(collections)) : ItemThrows(FlattenPages(collections)[k])
    THEN [call EXCEPT !.pc = "rejected", !.collections = collections,
                      !.error = "TypeError"]
    ELSE [call EXCEPT !.pc = "resolved", !.collections = collections,
                      !.entities = ItemEntities(call.menuName, collections)]

\* getDecoupledMenu after its await: a link entry without a first
\* 'drupal-menu' element makes the loop throw a TypeError.
LinksetResult(call, response) ==
    LET links == FlattenLinks(LinksetOf(response))
    IN  IF \E k \in 1..Len(links) : LinkThrows(links[k])
        THEN [call EXCEPT !.pc = "rejected", !.response = response,
                          !.error = "TypeError"]
        ELSE [call EXCEPT !.pc = "resolved", !.response = response,
                          !.entities = LinkEntities(call.menuName, links)]

Init ==
    /\ inst = [i \in Instances |-> NotConstructed]
    /\ index = [i \in Instances |-> NoIndex]
    /\ calls = [c \in CallIds |-> NoCall]

\* new DruxtMenu(baseUrl, options)
Construct(i, options) ==
    /\ inst[i].status = "none"
    /\ \E baseUrl \in BaseUrls, o \in options :
          inst' = [inst EXCEPT ![i] = Constructor(baseUrl, o)]
    /\ UNCHANGED <<index, calls>>

\* druxtMenu.get(menuName) on a constructed instance
Get(c, i) ==
    /\ inst[i].status = "constructed"
    /\ calls[c].pc = "idle"
    /\ \E menuName \in MenuNames :
          calls' = [calls EXCEPT ![c] = Started(i, menuName, inst[i].menu.type)]
    /\ UNCHANGED <<inst, index>>

\* The client loads its resource index for a pending getIndex().
ClientLoadsIndex(i) ==
    /\ ~index[i].loaded
    /\ \E c \in CallIds : calls[c].pc = "getIndex" /\ calls[c].inst = i
    /\ index' = [index EXCEPT ![i] = [loaded |-> TRUE, entries |-> BackendIndex]]
    /\ UNCHANGED <<inst, calls>>

\* getJsonApiMenuItems after getIndex(): register the resource, build the
\* query, call getCollectionAll.
GetIndexResolves(c) ==
    /\ calls[c].pc = "getIndex"
    /\ index[calls[c].inst].loaded
    /\ index' = [index EXCEPT ![calls[c].inst].entries =
                                  RegisterResource(@, calls[c].menuName)]
    /\ calls' = [calls EXCEPT ![c].pc = "getCollectionAll",
                              ![c].received = Append(@, "resolved"),
                              ![c].trace = Append(@,
                                  ClientCall("getCollectionAll",
                                             ItemsResource(calls[c].menuName),
                                             ItemsQuery(calls[c].menuName)))]
    /\ UNCHANGED inst

\* getMenuLinkContent after getCollectionAll()
MenuLinkContentResolves(c) ==
    /\ calls[c].pc = "getCollectionAll"
    /\ calls[c].strategy = "getMenuLinkContent"
    /\ \E r \in SeqsUpTo(MlcRecords, MaxRecords) : \E collections \in PageSeqs(r) :
          calls' = [calls EXCEPT ![c] =
                        MlcResult([@ EXCEPT !.received = Append(@, "resolved")],
                                  collections)]
    /\ UNCHANGED <<inst, index>>

\* getJsonApiMenuItems after getCollectionAll()
MenuItemsResolves(c, n) ==
    /\ calls[c].pc = "getCollectionAll"
    /\ calls[c].strategy = "getJsonApiMenuItems"
    /\ \E r \in SeqsUpTo(ItemRecords, n) : \E collections \in PageSeqs(r) :
          calls' = [calls EXCEPT ![c] =
                        ItemsResult([@ EXCEPT !.received = Append(@, "resolved")],
                                    collections)]
    /\ UNCHANGED <<inst, index>>

\* getDecoupledMenu after the raw linkset get
LinksetResolves(c) ==
    /\ calls[c].pc = "axios.get"
    /\ \E l \in SeqsUpTo(Links, MaxLinks) : \E response \in LinksetResponses(l) :
          calls' = [calls EXCEPT ![c] =
                        LinksetResult([@ EXCEPT !.received = Append(@, "resolved")],
                                      response)]
    /\ UNCHANGED <<inst, index>>

\* The client call a get() awaits throws.
ClientRejects(c) ==
    /\ calls[c].pc \in {"getIndex", "getCollectionAll", "axios.get"}
    /\ \E e \in ClientErrors :
          calls' = [calls EXCEPT ![c] =
                        Rejected([@ EXCEPT !.received = Append(@, "rejected"),
                                           !.thrown = e], e)]
    /\ UNCHANGED <<inst, index>>

\* One instance, one get() call, every option and every response.
Next ==
    \/ Construct("i1", Options)
    \/ Get("c1", "i1")
    \/ ClientLoadsIndex("i1")
    \/ GetIndexResolves("c1")
    \/ MenuLinkContentResolves("c1")
    \/ MenuItemsResolves("c1", MaxRecords)
    \/ LinksetResolves("c1")
    \/ ClientRejects("c1")

Spec == Init /\ [][Next]_vars

\* Two instances constructed with the legacy flag or with the type
\* 'jsonapi_menu_items', one get() call on each (c1 on i1, c2 on i2).
InstanceOf(c) == IF c = "c1" THEN "i1" ELSE "i2"

NextLegacy ==
    \E c \in CallIds :
        \/ Construct(InstanceOf(c), LegacyOptions)
        \/ Get(c, InstanceOf(c))
        \/ ClientLoadsIndex(InstanceOf(c))
        \/ GetIndexResolves(c)
        \/ MenuItemsResolves(c, MaxPairRecords)
        \/ ClientRejects(c)

SpecLegacy == Init /\ [][NextLegacy]_vars

\* One jsonapi_menu_items instance, concurrent get() calls on it.
NextConc ==
    \E c \in CallIds :
        \/ Construct("i1", LegacyOptions)
        \/ Get(c, "i1")
        \/ ClientLoadsIndex("i1")
        \/ GetIndexResolves(c)
        \/ MenuItemsResolves(c, MaxPairRecords)
        \/ ClientRejects(c)

SpecConc == Init /\ [][NextConc]_vars

-----------------------------------------------------------------------------
(* The claims.                                                             *)

Resolved(c, strategy) == calls[c].pc = "resolved" /\ calls[c].strategy = strategy

\* The raw records, respectively link entries, a settled call received.
RawRecords(c) == FlattenPages(calls[c].collections)
RawLinks(c) == FlattenLinks(LinksetOf(calls[c].response))

HasDot(h) == \E k \in 1..Len(h) : h[k] = "."

\* The part of a hierarchy before its last '.'.
BeforeLastDot(h) ==
    LET last == CHOOSE k \in 1..Len(h) : h[k] = "." /\ \A j \in (k + 1)..Len(h) : h[j] # "."
    IN  SubSeq(h, 1, last - 1)

\* C1: every entity of getDecoupledMenu has id = menuName + hierarchy, weight
\* = hierarchy, parent = null exactly when the hierarchy has no '.', and
\* otherwise parent = menuName + the hierarchy before its last '.'.
C1_DecoupledParent ==
    \A c \in CallIds :
        Resolved(c, "getDecoupledMenu") =>
            \A k \in 1..Len(RawLinks(c)) :
                LET h == RawLinks(c)[k].drupalMenu[1].hierarchy
                    e == calls[c].entities[k]
                IN  /\ e.id = calls[c].menuName \o Str(h)
                    /\ e.attributes.weight = Str(h)
                    /\ (e.attributes.parent = Null) <=> ~HasDot(h)
                    /\ HasDot(h) =>
                          e.attributes.parent = calls[c].menuName \o Str(BeforeLastDot(h))

\* C2: every entity of getJsonApiMenuItems has link.uri = 'internal:' + raw
\* url, parent = null for an empty raw parent and the raw parent otherwise,
\* id, title, weight and description copied, and the raw record as resource.
C2_ItemEntity ==
    \A c \in CallIds :
        Resolved(c, "getJsonApiMenuItems") =>
            /\ Len(calls[c].entities) = Len(RawRecords(c))
            /\ \A k \in 1..Len(RawRecords(c)) :
                  LET raw == RawRecords(c)[k]
                      e   == calls[c].entities[k]
                  IN  /\ e.attributes.link.uri = "internal:" \o raw.attributes.url
                      /\ raw.attributes.parent = "" => e.attributes.parent = Null
                      /\ raw.attributes.parent # "" =>
                            e.attributes.parent = raw.attributes.parent
                      /\ e.id = raw.id
                      /\ e.attributes.title = raw.attributes.title
                      /\ e.attributes.weight = raw.attributes.weight
                      /\ e.attributes.description = raw.attributes.description
                      /\ e.resource = raw

\* A resolved jsonapi_menu_items call that got a root record (parent "") and
\* a child record.
C2_Witness ==
    /\ Resolved("c1", "getJsonApiMenuItems")
    /\ \E j, k \in 1..Len(RawRecords("c1")) :
          /\ RawRecords("c1")[j].attributes.parent = ""
          /\ RawRecords("c1")[k].attributes.parent = "a"
          /\ calls["c1"].entities[j].attributes.parent = Null

\* C3: the strategy a get() call runs is decided by options.menu.type alone:
\* 'decoupled_menus' and 'jsonapi_menu_items' run their strategy, any other
\* value runs menu_link_content, whose only failures are the client's.
C3_StrategyByType ==
    \A c \in CallIds :
        calls[c].pc # "idle" =>
            LET type == inst[calls[c].inst].menu.type
            IN  /\ type = "decoupled_menus" =>
                      /\ calls[c].strategy = "getDecoupledMenu"
                      /\ calls[c].trace[1].op = "axios.get"
                /\ type = "jsonapi_menu_items" =>
                      /\ calls[c].strategy = "getJsonApiMenuItems"
                      /\ calls[c].trace[1].op = "getIndex"
                /\ type \notin {"decoupled_menus", "jsonapi_menu_items"} =>
                      /\ calls[c].strategy = "getMenuLinkContent"
                      /\ calls[c].trace =
                            <<ClientCall("getCollectionAll", MlcResource,
                                         MlcQuery(calls[c].menuName))>>
                      /\ calls[c].pc = "rejected" =>
                            calls[c].error = calls[c].thrown /\ calls[c].thrown \in ClientErrors

\* A get() on an instance of type "bogus" that resolved with entities.
C3_Witness ==
    /\ inst["i1"].menu.type = "bogus"
    /\ Resolved("c1", "getMenuLinkContent")
    /\ calls["c1"].entities # <<>>

\* An instance constructed with the legacy flag; one constructed with the
\* type 'jsonapi_menu_items' and no flag.
WithLegacyFlag(i) == inst[i].status = "constructed" /\ inst[i].menu.jsonApiMenuItems
WithItemsType(i) ==
    /\ inst[i].status = "constructed"
    /\ ~inst[i].menu.jsonApiMenuItems
    /\ inst[i].menu.type = "jsonapi_menu_items"

\* C4: a get() on an instance constructed with the legacy flag and a get()
\* of the same menu on an instance constructed with type
\* 'jsonapi_menu_items' that got the same from the client so far made the
\* same client calls in the same order, are at the same place and have the
\* same outcome.
C4_LegacyFlagEquivalence ==
    \A c1, c2 \in CallIds :
        (/\ calls[c1].pc # "idle" /\ calls[c2].pc # "idle"
         /\ WithLegacyFlag(calls[c1].inst) /\ WithItemsType(calls[c2].inst)
         /\ calls[c1].menuName = calls[c2].menuName
         /\ calls[c1].received = calls[c2].received
         /\ calls[c1].thrown = calls[c2].thrown
         /\ calls[c1].collections = calls[c2].collections)
        => /\ calls[c1].trace = calls[c2].trace
           /\ calls[c1].pc = calls[c2].pc
           /\ calls[c1].strategy = calls[c2].strategy
           /\ calls[c1].entities = calls[c2].entities
           /\ calls[c1].error = calls[c2].error

\* Both instances constructed, one with the flag and one with the type, and
\* both calls resolved with the same entities.
C4_Witness ==
    /\ WithLegacyFlag("i1") /\ WithItemsType("i2")
    /\ calls["c1"].pc = "resolved" /\ calls["c2"].pc = "resolved"
    /\ calls["c1"].menuName = calls["c2"].menuName
    /\ calls["c1"].entities # <<>>
    /\ calls["c1"].entities = calls["c2"].entities

\* C5: the constructor throws exactly for a missing or empty baseUrl, and
\* then no client was created, no index loaded and no get() runs on it.
C5_BaseUrlRequired ==
    \A i \in Instances :
        inst[i].status # "none" =>
            /\ (inst[i].status = "threw") <=> (inst[i].baseUrl \in {Undefined, Null, ""})
            /\ inst[i].status = "threw" =>
                  /\ inst[i].error = BaseUrlError
                  /\ ~inst[i].druxt
                  /\ ~index[i].loaded
                  /\ \A c \in CallIds : calls[c].inst # i

\* The constructor was given the empty string and threw.
C5_Witness == inst["i1"].status = "threw" /\ inst["i1"].baseUrl = ""

\* C6: a get() whose client call threw is rejected with that same error,
\* with no entities and no further client call.
C6_ErrorsPropagate ==
    \A c \in CallIds :
        calls[c].thrown # Undefined =>
            /\ calls[c].pc = "rejected"
            /\ calls[c].error = calls[c].thrown
            /\ calls[c].entities = <<>>
            /\ \A j, k \in 1..Len(calls[c].trace) :
                  calls[c].trace[j].op = calls[c].trace[k].op => j = k

\* getCollectionAll threw at a jsonapi_menu_items call, after getIndex.
C6_Witness ==
    /\ calls["c1"].strategy = "getJsonApiMenuItems"
    /\ Len(calls["c1"].trace) = 2
    /\ calls["c1"].thrown = "NetworkError"
    /\ calls["c1"].pc = "rejected"

\* C7 as claimed: in every strategy every returned entity has menu_name equal
\* to the requested menu name, whatever the client returned.
C7_MenuNameAlways ==
    \A c \in CallIds :
        calls[c].pc = "resolved" =>
            \A k \in 1..Len(calls[c].entities) :
                calls[c].entities[k].attributes.menu_name = calls[c].menuName

\* C7 amended: every entity of jsonapi_menu_items and of decoupled_menus has
\* menu_name equal to the requested menu name; an entity of
\* menu_link_content has the menu_name of its raw record.
C7_MenuNameSet ==
    \A c \in CallIds :
        /\ (Resolved(c, "getJsonApiMenuItems") \/ Resolved(c, "getDecoupledMenu")) =>
              \A k \in 1..Len(calls[c].entities) :
                  calls[c].entities[k].attributes.menu_name = calls[c].menuName
        /\ Resolved(c, "getMenuLinkContent") =>
              /\ Len(calls[c].entities) = Len(RawRecords(c))
              /\ \A k \in 1..Len(calls[c].entities) :
                    calls[c].entities[k].attributes.menu_name =
                        RawRecords(c)[k].attributes.menu_name

\* get("footer") with jsonapi_menu_items resolved with an entity whose raw
\* record says menu_name "main".
C7_Witness ==
    /\ Resolved("c1", "getJsonApiMenuItems")
    /\ calls["c1"].menuName = "footer"
    /\ calls["c1"].entities # <<>>
    /\ calls["c1"].entities[1].resource.attributes.menu_name = "main"
    /\ calls["c1"].entities[1].attributes.menu_name = "footer"

\* C8: a get() is rejected only when the client threw: a raw record that
\* lacks a field never makes it fail.
C8_MalformedNeverFails ==
    \A c \in CallIds : calls[c].pc = "rejected" => calls[c].thrown # Undefined

\* The step of a call from getIndex() to getCollectionAll(), which writes the
\* index entry.
RegisterStep(c) == calls[c].pc = "getIndex" /\ calls'[c].pc = "getCollectionAll"

\* C9: under any interleaving, a call writes the index entry of its resource
\* only after getIndex() completed and only if no entry is present under that
\* key; the entry then is the href of the menu; the other keys are unchanged;
\* and the entry is present when getCollectionAll is invoked.
C9_RegisterIfAbsent ==
    [][\A c \in CallIds :
          RegisterStep(c) =>
              LET i   == calls[c].inst
                  key == ItemsResource(calls[c].menuName)
              IN  /\ index[i].loaded
                  /\ index[i].entries[key] = Undefined
                  /\ index'[i].entries[key] = ItemsHref(calls[c].menuName)
                  /\ \A k \in IndexKeys \ {key} :
                        index'[i].entries[k] = index[i].entries[k]]_vars

\* The number of records on the pages before page p.
RECURSIVE PageOffset(_, _)
PageOffset(collections, p) ==
    IF p <= 1 THEN 0
    ELSE PageOffset(collections, p - 1) + Len(collections[p - 1].data)

\* C10: the entities of menu_link_content and of jsonapi_menu_items are the
\* records of the pages in page order and within-page order, one entity per
\* record (for menu_link_content the record itself).
C10_PageOrder ==
    \A c \in CallIds :
        (Resolved(c, "getMenuLinkContent") \/ Resolved(c, "getJsonApiMenuItems")) =>
            LET pages == calls[c].collections
            IN  /\ Len(calls[c].entities) = PageOffset(pages, Len(pages) + 1)
                /\ \A p \in 1..Len(pages) :
                      \A j \in 1..Len(pages[p].data) :
                          LET e == calls[c].entities[PageOffset(pages, p) + j]
                          IN  IF calls[c].strategy = "getMenuLinkContent"
                              THEN e = pages[p].data[j]
                              ELSE e.resource = pages[p].data[j]

\* menu_link_content got two pages of one record each, a then b, and
\* returned [a, b].
C10_Witness ==
    /\ Resolved("c1", "getMenuLinkContent")
    /\ Len(calls["c1"].collections) = 2
    /\ Len(calls["c1"].collections[1].data) = 1
    /\ Len(calls["c1"].collections[2].data) = 1
    /\ calls["c1"].collections[1].data[1].id = "a"
    /\ calls["c1"].collections[2].data[1].id = "b"
    /\ calls["c1"].entities[1].id = "a"
    /\ calls["c1"].entities[2].id = "b"

=============================================================================
